---- MODULE Spec2Model ----
(***************************************************************************)
(* Model of the DNS wire-format encoder and UDP responder of src/main.rs.   *)
(*                                                                         *)
(* Four specifications share the variables below:                          *)
(*   SpecEnum    the enumerated field codecs (OpCode, RCode, RRType, Class) *)
(*   SpecHeader  DNSHeader::to_bytes on a drawn header                      *)
(*   SpecName    Label / CName parsing and encoding on a drawn text         *)
(*   Spec        the receive/respond loop of main                           *)
(* Bytes are naturals 0..255, byte strings are sequences of bytes, a Rust   *)
(* panic ends the process (proc = "aborted").                               *)
(***************************************************************************)
EXTENDS Integers, Sequences, FiniteSets, TLC

VARIABLES
    build,      \* "debug" (overflow checks on) or "release" (wrapping)
    proc,       \* "running" | "aborted" (a panic unwound main) | "exited"
    \* --- enumerated field codecs
    opcode, rcode, rrtype, class,       \* the variants drawn
    opOut, rcOut, rtOut, clOut,         \* results of their to_bytes
    \* --- header codec
    header,     \* the DNSHeader value
    hout,       \* result of DNSHeader::to_bytes
    \* --- label / name codec
    text,       \* the &str handed to from_str
    label,      \* result of Label::from_str
    lbytes,     \* result of Label::to_bytes
    cname,      \* result of CName::from_str, or CName::default()
    nbytes,     \* result of CName::to_bytes
    \* --- main
    pc,         \* position of main: "bind" | "recv" | "send" | "done"
    buf,        \* the 512-byte receive buffer
    cur,        \* (size, source) bound by the Ok arm of the current iteration
    stdout,     \* the "Received {} bytes from {}" lines printed so far
    sent        \* datagrams handed to the socket by send_to, in order

vars == <<build, proc, opcode, rcode, rrtype, class, opOut, rcOut, rtOut, clOut,
          header, hout, text, label, lbytes, cname, nbytes,
          pc, buf, cur, stdout, sent>>

enumVars   == <<opcode, rcode, rrtype, class, opOut, rcOut, rtOut, clOut>>
headerVars == <<header, hout>>
nameVars   == <<text, label, lbytes, cname, nbytes>>
mainVars   == <<pc, buf, cur, stdout, sent>>

----------------------------------------------------------------------------
(* Result values *)

None        == [tag |-> "none"]
Ok(v)       == [tag |-> "ok", val |-> v]
Panic(msg)  == [tag |-> "panic", msg |-> msg]
Err(e)      == [tag |-> "err", err |-> e]

Builds == {"debug", "release"}

----------------------------------------------------------------------------
(* Integer primitives *)

\* u16::to_be_bytes
U16ToBeBytes(x) == <<x \div 256, x % 256>>

\* u8::to_be_bytes
U8ToBeBytes(x) == <<x>>

\* A u8 accumulator: its value, whether a panic has been raised, and which
\* arithmetic events happened on the way ("add_overflow": a sum exceeded 255,
\* "shl_lost": a left shift pushed a set bit out of the byte).
U8(v) == [val |-> v, panic |-> FALSE, ev |-> {}]

\* `x << n` on u8 with n < 8: never panics, bits shifted past bit 7 are dropped.
ShlU8(x, n) ==
    [val |-> (x * (2 ^ n)) % 256,
     panic |-> FALSE,
     ev |-> IF x * (2 ^ n) > 255 THEN {"shl_lost"} ELSE {}]

\* `t += x` on u8: panics on overflow with overflow checks (debug), wraps
\* modulo 256 without them (release).
AddU8(t, x, b) ==
    IF t.panic THEN t
    ELSE IF t.val + x > 255
         THEN IF b = "debug"
              THEN [val |-> t.val, panic |-> TRUE, ev |-> t.ev \cup {"add_overflow"}]
              ELSE [val |-> (t.val + x) % 256, panic |-> FALSE,
                    ev |-> t.ev \cup {"add_overflow"}]
         ELSE [t EXCEPT !.val = t.val + x]

\* `if flag { t += x }`
AddIf(flag, t, x, b) == IF flag THEN AddU8(t, x, b) ELSE t

----------------------------------------------------------------------------
(* Enumerated field codecs *)

OpCodes == {"Query", "IQuery", "Status", "Unassigned", "Notify", "Update", "DSO"}
RCodes  == {"NoError", "FormErr", "ServFail", "NXDomain", "NotImp", "Refused"}
RRTypes == {"A", "NS", "MD", "MF", "CName", "SOA", "MB", "MG", "MR", "NULL",
            "WKS", "PTR", "HInfo", "MInfo", "MX", "TXT"}
Classes == {"IN", "CS", "CH", "HS"}

OpCodeDefault == "Query"
RCodeDefault  == "NoError"
RRTypeDefault == "A"
ClassDefault  == "IN"

OpCodeNotifyAsThree(o) ==
    CASE o = "Query"      -> Ok(0)
      [] o = "IQuery"     -> Ok(1)
      [] o = "Status"     -> Ok(2)
      [] o = "Unassigned" -> Panic("unreachable")
      [] o = "Notify"     -> Ok(3)
      [] o = "Update"     -> Ok(5)
      [] o = "DSO"        -> Ok(6)

\* OpCode::to_bytes
OpCodeToBytes(o) ==
    CASE o = "Query"      -> Ok(0)
      [] o = "IQuery"     -> Ok(1)
      [] o = "Status"     -> Ok(2)
      [] o = "Unassigned" -> Panic("unreachable")
      [] o = "Notify"     -> Ok(4)
      [] o = "Update"     -> Ok(5)
      [] o = "DSO"        -> Ok(6)

\* RCode::to_bytes (the wildcard arm matches no variant)
RCodeToBytes(r) ==
    CASE r = "NoError"  -> Ok(0)
      [] r = "FormErr"  -> Ok(1)
      [] r = "ServFail" -> Ok(2)
      [] r = "NXDomain" -> Ok(3)
      [] r = "NotImp"   -> Ok(4)
      [] r = "Refused"  -> Ok(5)

\* the u16 picked by the match of RRType::to_bytes; MInfo falls to the wildcard
RRTypeValue(t) ==
    CASE t = "A"     -> Ok(1)
      [] t = "NS"    -> Ok(2)
      [] t = "MD"    -> Ok(3)
      [] t = "MF"    -> Ok(4)
      [] t = "CName" -> Ok(5)
      [] t = "SOA"   -> Ok(6)
      [] t = "MB"    -> Ok(7)
      [] t = "MG"    -> Ok(8)
      [] t = "MR"    -> Ok(9)
      [] t = "NULL"  -> Ok(10)
      [] t = "WKS"   -> Ok(11)
      [] t = "PTR"   -> Ok(12)
      [] t = "HInfo" -> Ok(13)
      [] t = "MX"    -> Ok(15)
      [] t = "TXT"   -> Ok(16)
      [] OTHER       -> Panic("unreachable")

\* RRType::to_bytes
RRTypeToBytes(t) ==
    LET b == RRTypeValue(t)
    IN  IF b.tag = "ok" THEN Ok(U16ToBeBytes(b.val)) ELSE b

\* Class::to_bytes
ClassToBytes(c) ==
    LET b == CASE c = "IN" -> 1
               [] c = "CS" -> 2
               [] c = "CH" -> 3
               [] c = "HS" -> 4
    IN  Ok(U16ToBeBytes(b))

----------------------------------------------------------------------------
(* Header codec *)

\* DNSHeader::default
DNSHeaderDefault ==
    [packet_id |-> 1234, qr |-> TRUE, opcode |-> OpCodeDefault,
     aa |-> FALSE, tc |-> FALSE, rd |-> FALSE, ra |-> FALSE,
     z |-> 0, rcode |-> RCodeDefault,
     qdcount |-> 0, ancount |-> 0, nscount |-> 0, arcount |-> 0]

\* "qr, opcode, aa, tc, rd": the accumulator t stored in res[2]
HeaderByte2(h, b) ==
    LET t0 == U8(0)
        t1 == AddIf(h.qr, t0, 128, b)
        op == OpCodeToBytes(h.opcode)
    IN  IF op.tag = "panic" THEN [val |-> t1.val, panic |-> TRUE, ev |-> t1.ev]
        ELSE LET sh == ShlU8(op.val, 3)
                 t2 == AddU8([t1 EXCEPT !.ev = @ \cup sh.ev], sh.val, b)
                 t3 == AddIf(h.aa, t2, 4, b)
                 t4 == AddIf(h.tc, t3, 2, b)
                 t5 == AddIf(h.rd, t4, 1, b)
             IN  t5

\* "ra, z, rcode": the accumulator t stored in res[3]
HeaderByte3(h, b) ==
    LET t0 == ShlU8(h.z, 6)
        t1 == AddIf(h.ra, t0, 128, b)
        rc == RCodeToBytes(h.rcode)
        t2 == AddU8(t1, rc.val, b)
    IN  t2

\* DNSHeader::to_bytes: the 12 bytes, or the panic that ends the call; `ev`
\* reports the arithmetic events of both accumulators.
HeaderToBytes(h, b) ==
    LET b2 == HeaderByte2(h, b)
        b3 == HeaderByte3(h, b)
    IN  IF b2.panic THEN [tag |-> "panic", val |-> <<>>, ev |-> b2.ev]
        ELSE IF b3.panic THEN [tag |-> "panic", val |-> <<>>, ev |-> b2.ev \cup b3.ev]
        ELSE [tag |-> "ok",
              val |-> U16ToBeBytes(h.packet_id)
                      \o <<b2.val>>
                      \o U8ToBeBytes(b3.val)
                      \o U16ToBeBytes(h.qdcount)
                      \o U16ToBeBytes(h.ancount)
                      \o U16ToBeBytes(h.nscount)
                      \o U16ToBeBytes(h.arcount),
              ev  |-> b2.ev \cup b3.ev]

----------------------------------------------------------------------------
(* Label and domain-name codec *)

Dot == 46
MaxLabelLen == 255
U8Modulus == 256

Contains(s, c) == \E i \in 1..Len(s) : s[i] = c

\* `n as u8`: a truncating cast
AsU8(n) == n % U8Modulus

LabelParsingError == "LabelParsingError"

LabelFromStrOffByOne(s) ==
    IF Contains(s, Dot) \/ Len(s) > MaxLabelLen + 1
    THEN Err(LabelParsingError)
    ELSE Ok([length |-> AsU8(Len(s)), value |-> s])

\* <Label as FromStr>::from_str
LabelFromStr(s) ==
    IF Contains(s, Dot) \/ Len(s) > MaxLabelLen
    THEN Err(LabelParsingError)
    ELSE Ok([length |-> AsU8(Len(s)), value |-> s])

\* Label::to_bytes
LabelToBytes(l) == <<l.length>> \o l.value

\* str::split(c): the substrings between the separators, dots + 1 of them
RECURSIVE Split(_, _)
Split(s, c) ==
    IF ~Contains(s, c) THEN <<s>>
    ELSE LET i == CHOOSE k \in 1..Len(s) :
                      s[k] = c /\ \A j \in 1..(k - 1) : s[j] # c
         IN  <<SubSeq(s, 1, i - 1)>> \o Split(SubSeq(s, i + 1, Len(s)), c)

\* .map(Label::from_str).collect::<Result<Vec<_>, _>>(): the labels in order,
\* or the first error met
RECURSIVE CollectLabels(_)
CollectLabels(segs) ==
    IF segs = <<>> THEN Ok(<<>>)
    ELSE LET r == LabelFromStr(Head(segs))
         IN  IF r.tag = "err" THEN r
             ELSE LET rest == CollectLabels(Tail(segs))
                  IN  IF rest.tag = "err" THEN rest
                      ELSE Ok(<<r.val>> \o rest.val)

RECURSIVE KeepGoodLabels(_)
KeepGoodLabels(segs) ==
    IF segs = <<>> THEN <<>>
    ELSE LET r == LabelFromStr(Head(segs))
         IN  (IF r.tag = "err" THEN <<>> ELSE <<r.val>>) \o KeepGoodLabels(Tail(segs))

CNameFromStrPartial(s) == Ok(KeepGoodLabels(Split(s, Dot)))

\* <CName as FromStr>::from_str
CNameFromStr(s) == CollectLabels(Split(s, Dot))

\* CName::default(): the empty Vec<Label>
CNameDefault == <<>>

RECURSIVE FlatMapLabels(_)
FlatMapLabels(ls) ==
    IF ls = <<>> THEN <<>>
    ELSE LabelToBytes(Head(ls)) \o FlatMapLabels(Tail(ls))

CNameToBytesNoTerminator(n) == FlatMapLabels(n)

\* CName::to_bytes
CNameToBytes(n) == FlatMapLabels(n) \o <<0>>

----------------------------------------------------------------------------
(* Inputs *)

MaxShort == 2
MaxDatagrams == 3
BufSize == 512
MaxZ == 7

Rep(c, n) == [i \in 1..n |-> c]

Min(a, b) == IF a < b THEN a ELSE b

\* '.', 'a', 'b'
Alphabet == {Dot, 97, 98}

ShortTexts == UNION {[1..k -> Alphabet] : k \in 0..MaxShort}

\* lengths of the run of 'a' placed between two short texts: none, and the
\* label limit with its two neighbours
RunLens == {0, MaxLabelLen - 1, MaxLabelLen, MaxLabelLen + 1}

\* "abc.com"
AbcCom == <<97, 98, 99, Dot, 99, 111, 109>>

Texts == {p \o Rep(97, n) \o q : p \in ShortTexts, n \in RunLens, q \in ShortTexts}
         \cup {AbcCom}

PacketIds == {0, 1234, 65535}

\* (qdcount, ancount, nscount, arcount)
CountTuples == {<<0, 0, 0, 0>>, <<1, 2, 3, 4>>, <<258, 772, 1286, 65535>>}

Headers ==
    {[packet_id |-> id, qr |-> f[1], opcode |-> op, aa |-> f[2], tc |-> f[3],
      rd |-> f[4], ra |-> f[5], z |-> zz, rcode |-> rc,
      qdcount |-> c[1], ancount |-> c[2], nscount |-> c[3], arcount |-> c[4]] :
        id \in PacketIds, f \in [1..5 -> BOOLEAN], op \in OpCodes,
        zz \in 0..MaxZ, rc \in RCodes, c \in CountTuples}

Sources == {"127.0.0.1:40001", "127.0.0.1:40002"}

\* datagram payloads: empty, one byte, and one byte more than the buffer holds
Payloads == {Rep(9, n) : n \in {0, 1, BufSize + 1}}

----------------------------------------------------------------------------
(* Initial states *)

EnumIdle ==
    /\ opcode = OpCodeDefault /\ rcode = RCodeDefault
    /\ rrtype = RRTypeDefault /\ class = ClassDefault
    /\ opOut = None /\ rcOut = None /\ rtOut = None /\ clOut = None

HeaderIdle == header = DNSHeaderDefault /\ hout = None

NameIdle ==
    /\ text = <<>> /\ label = None /\ lbytes = None
    /\ cname = None /\ nbytes = None

MainIdle ==
    /\ pc = "idle" /\ buf = <<>> /\ cur = None /\ stdout = <<>> /\ sent = <<>>

InitEnum ==
    /\ build \in Builds /\ proc = "running"
    /\ opcode \in OpCodes /\ rcode \in RCodes
    /\ rrtype \in RRTypes /\ class \in Classes
    /\ opOut = None /\ rcOut = None /\ rtOut = None /\ clOut = None
    /\ HeaderIdle /\ NameIdle /\ MainIdle

InitHeader ==
    /\ build \in Builds /\ proc = "running"
    /\ header \in Headers /\ hout = None
    /\ EnumIdle /\ NameIdle /\ MainIdle

InitName ==
    /\ build \in Builds /\ proc = "running"
    /\ text \in Texts /\ label = None /\ lbytes = None
    /\ cname = None /\ nbytes = None
    /\ EnumIdle /\ HeaderIdle /\ MainIdle

\* main before UdpSocket::bind, with `buf = [0; 512]`
Init ==
    /\ build \in Builds /\ proc = "running"
    /\ pc = "bind" /\ buf = Rep(0, BufSize) /\ cur = None
    /\ stdout = <<>> /\ sent = <<>>
    /\ EnumIdle /\ HeaderIdle /\ NameIdle

----------------------------------------------------------------------------
(* Enumerated field codec calls *)

AfterCall(r) == IF r.tag = "panic" THEN "aborted" ELSE "running"

CallOpCodeToBytes ==
    /\ proc = "running" /\ opOut.tag = "none"
    /\ opOut' = OpCodeToBytes(opcode)
    /\ proc' = AfterCall(opOut')
    /\ UNCHANGED <<build, opcode, rcode, rrtype, class, rcOut, rtOut, clOut,
                   headerVars, nameVars, mainVars>>

CallRCodeToBytes ==
    /\ proc = "running" /\ rcOut.tag = "none"
    /\ rcOut' = RCodeToBytes(rcode)
    /\ proc' = AfterCall(rcOut')
    /\ UNCHANGED <<build, opcode, rcode, rrtype, class, opOut, rtOut, clOut,
                   headerVars, nameVars, mainVars>>

CallRRTypeToBytes ==
    /\ proc = "running" /\ rtOut.tag = "none"
    /\ rtOut' = RRTypeToBytes(rrtype)
    /\ proc' = AfterCall(rtOut')
    /\ UNCHANGED <<build, opcode, rcode, rrtype, class, opOut, rcOut, clOut,
                   headerVars, nameVars, mainVars>>

CallClassToBytes ==
    /\ proc = "running" /\ clOut.tag = "none"
    /\ clOut' = ClassToBytes(class)
    /\ proc' = AfterCall(clOut')
    /\ UNCHANGED <<build, opcode, rcode, rrtype, class, opOut, rcOut, rtOut,
                   headerVars, nameVars, mainVars>>

NextEnum ==
    \/ CallOpCodeToBytes
    \/ CallRCodeToBytes
    \/ CallRRTypeToBytes
    \/ CallClassToBytes

SpecEnum == InitEnum /\ [][NextEnum]_vars

----------------------------------------------------------------------------
(* Header codec call *)

CallHeaderToBytes ==
    /\ proc = "running" /\ hout.tag = "none"
    /\ hout' = HeaderToBytes(header, build)
    /\ proc' = AfterCall(hout')
    /\ UNCHANGED <<build, header, enumVars, nameVars, mainVars>>

NextHeader == CallHeaderToBytes

SpecHeader == InitHeader /\ [][NextHeader]_vars

----------------------------------------------------------------------------
(* Label and name codec calls *)

CallLabelFromStr ==
    /\ proc = "running" /\ label.tag = "none"
    /\ label' = LabelFromStr(text)
    /\ UNCHANGED <<build, proc, text, lbytes, cname, nbytes,
                   enumVars, headerVars, mainVars>>

CallLabelToBytes ==
    /\ proc = "running" /\ label.tag = "ok" /\ lbytes.tag = "none"
    /\ lbytes' = Ok(LabelToBytes(label.val))
    /\ UNCHANGED <<build, proc, text, label, cname, nbytes,
                   enumVars, headerVars, mainVars>>

CallCNameFromStr ==
    /\ proc = "running" /\ cname.tag = "none"
    /\ cname' = [from |-> "from_str", res |-> CNameFromStr(text), tag |-> "made"]
    /\ UNCHANGED <<build, proc, text, label, lbytes, nbytes,
                   enumVars, headerVars, mainVars>>

CallCNameDefault ==
    /\ proc = "running" /\ cname.tag = "none"
    /\ cname' = [from |-> "default", res |-> Ok(CNameDefault), tag |-> "made"]
    /\ UNCHANGED <<build, proc, text, label, lbytes, nbytes,
                   enumVars, headerVars, mainVars>>

CallCNameToBytes ==
    /\ proc = "running" /\ cname.tag = "made" /\ cname.res.tag = "ok"
    /\ nbytes.tag = "none"
    /\ nbytes' = Ok(CNameToBytes(cname.res.val))
    /\ UNCHANGED <<build, proc, text, label, lbytes, cname,
                   enumVars, headerVars, mainVars>>

NextName ==
    \/ CallLabelFromStr
    \/ CallLabelToBytes
    \/ CallCNameFromStr
    \/ CallCNameDefault
    \/ CallCNameToBytes

SpecName == InitName /\ [][NextName]_vars

----------------------------------------------------------------------------
(* main *)

\* UdpSocket::bind(..).expect(..) succeeds
BindOk ==
    /\ proc = "running" /\ pc = "bind"
    /\ pc' = "recv"
    /\ UNCHANGED <<build, proc, buf, cur, stdout, sent,
                   enumVars, headerVars, nameVars>>

\* UdpSocket::bind(..) fails and expect panics
BindFail ==
    /\ proc = "running" /\ pc = "bind"
    /\ proc' = "aborted"
    /\ UNCHANGED <<build, pc, buf, cur, stdout, sent,
                   enumVars, headerVars, nameVars>>

\* recv_from returns Ok((size, source)): the datagram's first BufSize bytes are
\* in buf, the line is printed and the response is built
RecvOk(source, data) ==
    /\ proc = "running" /\ pc = "recv"
    /\ Len(stdout) < MaxDatagrams
    /\ LET size == Min(Len(data), BufSize)
           response == HeaderToBytes(DNSHeaderDefault, build)
       IN  /\ buf' = [i \in 1..BufSize |-> IF i <= size THEN data[i] ELSE buf[i]]
           /\ stdout' = Append(stdout, [size |-> size, source |-> source])
           /\ IF response.tag = "ok"
              THEN /\ cur' = [tag |-> "ok", size |-> size, source |-> source,
                              response |-> response.val]
                   /\ pc' = "send"
                   /\ proc' = proc
              ELSE /\ cur' = cur
                   /\ pc' = pc
                   /\ proc' = "aborted"
    /\ UNCHANGED <<build, sent, enumVars, headerVars, nameVars>>

\* recv_from returns Err: the error is printed and the loop is left
RecvErr ==
    /\ proc = "running" /\ pc = "recv"
    /\ pc' = "done"
    /\ proc' = "exited"
    /\ UNCHANGED <<build, buf, cur, stdout, sent,
                   enumVars, headerVars, nameVars>>

SendOkToFirstSource ==
    /\ proc = "running" /\ pc = "send"
    /\ sent' = Append(sent, [dest |-> stdout[1].source, data |-> cur.response])
    /\ pc' = "recv"
    /\ UNCHANGED <<build, proc, buf, cur, stdout,
                   enumVars, headerVars, nameVars>>

\* send_to(&response, source) succeeds
SendOk ==
    /\ proc = "running" /\ pc = "send"
    /\ sent' = Append(sent, [dest |-> cur.source, data |-> cur.response])
    /\ pc' = "recv"
    /\ UNCHANGED <<build, proc, buf, cur, stdout,
                   enumVars, headerVars, nameVars>>

\* send_to fails and expect("Failed to send response") panics
SendFail ==
    /\ proc = "running" /\ pc = "send"
    /\ proc' = "aborted"
    /\ UNCHANGED <<build, pc, buf, cur, stdout, sent,
                   enumVars, headerVars, nameVars>>

Next ==
    \/ BindOk
    \/ BindFail
    \/ \E source \in Sources, data \in Payloads : RecvOk(source, data)
    \/ RecvErr
    \/ SendOk
    \/ SendFail

Spec == Init /\ [][Next]_vars

----------------------------------------------------------------------------
(* Reference values of the wire format (RFC 1035, section 4.1.1 and 3.2) *)

Bit(flag) == IF flag THEN 1 ELSE 0

MappedOpCodes == OpCodes \ {"Unassigned"}
MappedRRTypes == RRTypes \ {"MInfo"}

WireOpCode == [o \in MappedOpCodes |->
    CASE o = "Query" -> 0 [] o = "IQuery" -> 1 [] o = "Status" -> 2
      [] o = "Notify" -> 4 [] o = "Update" -> 5 [] o = "DSO" -> 6]

WireRCode == [r \in RCodes |->
    CASE r = "NoError" -> 0 [] r = "FormErr" -> 1 [] r = "ServFail" -> 2
      [] r = "NXDomain" -> 3 [] r = "NotImp" -> 4 [] r = "Refused" -> 5]

WireRRType == [t \in MappedRRTypes |->
    CASE t = "A" -> 1 [] t = "NS" -> 2 [] t = "MD" -> 3 [] t = "MF" -> 4
      [] t = "CName" -> 5 [] t = "SOA" -> 6 [] t = "MB" -> 7 [] t = "MG" -> 8
      [] t = "MR" -> 9 [] t = "NULL" -> 10 [] t = "WKS" -> 11 [] t = "PTR" -> 12
      [] t = "HInfo" -> 13 [] t = "MX" -> 15 [] t = "TXT" -> 16]

WireClass == [c \in Classes |->
    CASE c = "IN" -> 1 [] c = "CS" -> 2 [] c = "CH" -> 3 [] c = "HS" -> 4]

HeaderEncoded == hout.tag # "none"

----------------------------------------------------------------------------
(* C1 *)

\* C1: whenever DNSHeader::to_bytes has been called on a header with Z in 0..7,
\* it returned bytes whose byte 3 is RA*128 + Z*16 + rcode wire value.
C1_Byte3Layout ==
    (HeaderEncoded /\ header.z \in 0..7 /\ header.opcode \in MappedOpCodes) =>
        /\ hout.tag = "ok"
        /\ hout.val[4] = Bit(header.ra) * 128 + header.z * 16 + WireRCode[header.rcode]

----------------------------------------------------------------------------
(* C2 *)

\* C2: whenever DNSHeader::to_bytes has been called, on any packet id, flags,
\* counts and OpCode variant, it returned exactly 12 bytes: the packet id
\* big-endian, byte 2 = QR*128 + opcode*8 + AA*4 + TC*2 + RD, and in bytes 4-11
\* QDCOUNT, ANCOUNT, NSCOUNT, ARCOUNT big-endian in that order.
C2_HeaderLayout ==
    HeaderEncoded =>
        /\ hout.tag = "ok"
        /\ Len(hout.val) = 12
        /\ hout.val[1] * 256 + hout.val[2] = header.packet_id
        /\ header.opcode \in MappedOpCodes
        /\ hout.val[3] = Bit(header.qr) * 128 + WireOpCode[header.opcode] * 8
                         + Bit(header.aa) * 4 + Bit(header.tc) * 2 + Bit(header.rd)
        /\ hout.val[5] * 256 + hout.val[6] = header.qdcount
        /\ hout.val[7] * 256 + hout.val[8] = header.ancount
        /\ hout.val[9] * 256 + hout.val[10] = header.nscount
        /\ hout.val[11] * 256 + hout.val[12] = header.arcount
        /\ \A i \in 1..12 : hout.val[i] \in 0..255

----------------------------------------------------------------------------
(* C3 *)

\* C3: OpCode::to_bytes on Unassigned and RRType::to_bytes on MInfo yield the
\* error value UnmappedVariant, and the process keeps running.
C3_UnmappedIsRecoverable ==
    /\ (opOut.tag # "none" /\ opcode = "Unassigned") =>
           /\ opOut.tag = "err"
           /\ opOut.err = "UnmappedVariant"
           /\ proc = "running"
    /\ (rtOut.tag # "none" /\ rrtype = "MInfo") =>
           /\ rtOut.tag = "err"
           /\ rtOut.err = "UnmappedVariant"
           /\ proc = "running"

----------------------------------------------------------------------------
(* C4 *)

\* C4: Label::from_str succeeds exactly on texts without '.' of at most 255
\* bytes and fails with the label format error on every other text; for an
\* accepted text Label::to_bytes is the length byte len(text), untruncated,
\* followed by the bytes of text.
C4_LabelCodec ==
    /\ label.tag # "none" =>
           /\ label.tag \in {"ok", "err"}
           /\ label.tag = "ok" <=>
                  ((\A i \in 1..Len(text) : text[i] # 46) /\ Len(text) <= 255)
           /\ label.tag = "err" => label.err = "LabelParsingError"
    /\ lbytes.tag # "none" =>
           /\ Len(lbytes.val) = 1 + Len(text)
           /\ lbytes.val[1] = Len(text)
           /\ \A i \in 1..Len(text) : lbytes.val[i + 1] = text[i]

\* a 255-byte text was accepted and encoded
C4_Witness ==
    /\ label.tag = "ok" /\ lbytes.tag = "ok"
    /\ Len(text) = 255
    /\ lbytes.val[1] = 255

----------------------------------------------------------------------------
(* C5 *)

\* number of bytes before label i in the encoding of the labels ls
RECURSIVE OffsetOf(_, _)
OffsetOf(ls, i) ==
    IF i = 1 THEN 0 ELSE OffsetOf(ls, i - 1) + 1 + Len(ls[i - 1].value)

\* C5: CName::to_bytes is, label after label in order, the label's length byte
\* and its bytes, then one zero byte as the last byte; its length is the sum of
\* 1 + label length over the labels, plus 1; "abc.com" encodes to
\* [3,'a','b','c',3,'c','o','m',0].
C5_NameEncoding ==
    nbytes.tag # "none" =>
        LET ls == cname.res.val
            n  == Len(ls)
            bs == nbytes.val
        IN  /\ Len(bs) = OffsetOf(ls, n + 1) + 1
            /\ bs[Len(bs)] = 0
            /\ \A i \in 1..n :
                   /\ bs[OffsetOf(ls, i) + 1] = Len(ls[i].value)
                   /\ \A j \in 1..Len(ls[i].value) :
                          bs[OffsetOf(ls, i) + 1 + j] = ls[i].value[j]
            /\ (cname.from = "from_str" /\ text = <<97, 98, 99, 46, 99, 111, 109>>) =>
                   bs = <<3, 97, 98, 99, 3, 99, 111, 109, 0>>

\* the name parsed from "abc.com" was encoded
C5_Witness ==
    /\ nbytes.tag = "ok"
    /\ cname.from = "from_str"
    /\ text = <<97, 98, 99, 46, 99, 111, 109>>
    /\ Len(nbytes.val) = 9

----------------------------------------------------------------------------
(* C6 *)

\* C6: the encoding of the root name is the single byte [0], both for
\* CName::default() and for the name CName::from_str builds from "".
C6_RootName ==
    (nbytes.tag # "none" /\ (cname.from = "default" \/ text = <<>>)) =>
        nbytes.val = <<0>>

----------------------------------------------------------------------------
(* C7 *)

\* some 256 consecutive bytes of s hold no '.': a segment longer than 255
HasLongSegment(s) ==
    \E i \in 1..(Len(s) - 255) : \A j \in i..(i + 255) : s[j] # 46

RECURSIVE JoinDots(_)
JoinDots(vs) ==
    IF Len(vs) = 1 THEN vs[1]
    ELSE vs[1] \o <<46>> \o JoinDots(Tail(vs))

\* C7: CName::from_str is all-or-nothing: it fails with the label format error,
\* holding no labels, exactly when some '.'-separated segment is longer than 255
\* bytes, and otherwise holds one label per segment, in segment order.
C7_FromStrAllOrNothing ==
    (cname.tag # "none" /\ cname.from = "from_str") =>
        LET r == cname.res
        IN  /\ r.tag \in {"ok", "err"}
            /\ r.tag = "err" <=> HasLongSegment(text)
            /\ r.tag = "err" => r = [tag |-> "err", err |-> "LabelParsingError"]
            /\ r.tag = "ok" =>
                   /\ Len(r.val) = 1 + Cardinality({i \in 1..Len(text) : text[i] = 46})
                   /\ \A i \in 1..Len(r.val) :
                          /\ \A j \in 1..Len(r.val[i].value) : r.val[i].value[j] # 46
                          /\ r.val[i].length = Len(r.val[i].value)
                   /\ JoinDots([i \in 1..Len(r.val) |-> r.val[i].value]) = text

\* a text with an acceptable first segment and an overlong later one was rejected
C7_Witness ==
    /\ cname.tag # "none" /\ cname.from = "from_str"
    /\ cname.res.tag = "err"
    /\ Len(text) > 257
    /\ text[1] = 97 /\ text[2] = 46

----------------------------------------------------------------------------
(* C8 *)

\* C8: every mapped variant encodes to its RFC wire value: OpCode and RCode as
\* one byte below 16, RRType and Class as two bytes big-endian with high byte 0;
\* the mapping is injective within each enumeration; the defaults Query,
\* NoError, A, IN encode to 0, 0, [0,1], [0,1].
C8_WireValues ==
    /\ (opOut.tag # "none" /\ opcode \in MappedOpCodes) =>
           opOut = [tag |-> "ok", val |-> WireOpCode[opcode]] /\ opOut.val < 16
    /\ rcOut.tag # "none" =>
           rcOut = [tag |-> "ok", val |-> WireRCode[rcode]] /\ rcOut.val < 16
    /\ (rtOut.tag # "none" /\ rrtype \in MappedRRTypes) =>
           rtOut = [tag |-> "ok", val |-> <<0, WireRRType[rrtype]>>]
    /\ clOut.tag # "none" =>
           clOut = [tag |-> "ok", val |-> <<0, WireClass[class]>>]
    /\ opOut.tag = "ok" => \A o \in MappedOpCodes \ {opcode} : OpCodeToBytes(o) # opOut
    /\ rcOut.tag = "ok" => \A r \in RCodes \ {rcode} : RCodeToBytes(r) # rcOut
    /\ rtOut.tag = "ok" => \A t \in MappedRRTypes \ {rrtype} : RRTypeToBytes(t) # rtOut
    /\ clOut.tag = "ok" => \A c \in Classes \ {class} : ClassToBytes(c) # clOut
    /\ (opOut.tag # "none" /\ opcode = "Query") => opOut.val = 0
    /\ (rcOut.tag # "none" /\ rcode = "NoError") => rcOut.val = 0
    /\ (rtOut.tag # "none" /\ rrtype = "A") => rtOut.val = <<0, 1>>
    /\ (clOut.tag # "none" /\ class = "IN") => clOut.val = <<0, 1>>

\* all four codecs ran on non-default mapped variants
C8_Witness ==
    /\ opcode = "Notify" /\ opOut.tag = "ok"
    /\ rcode = "Refused" /\ rcOut.tag = "ok"
    /\ rrtype = "TXT" /\ rtOut.tag = "ok"
    /\ class = "HS" /\ clOut.tag = "ok"

----------------------------------------------------------------------------
(* C9 *)

\* 04 D2 80 00 00 00 00 00 00 00 00 00
FixedReply == <<4, 210, 128, 0, 0, 0, 0, 0, 0, 0, 0, 0>>

\* reply i answers the i-th received datagram
Answers(i) == sent[i] = [dest |-> stdout[i].source, data |-> FixedReply]

\* C9 as stated: outside the window between a receive and its send, every
\* received datagram has its one reply, sent to its source with the fixed 12
\* bytes; no reply without a receive; nothing after a receive error.
C9_EveryDatagramAnswered ==
    /\ Len(sent) <= Len(stdout)
    /\ \A i \in 1..Len(sent) : Answers(i)
    /\ (pc # "send" \/ proc # "running") => Len(sent) = Len(stdout)
    /\ pc = "done" => proc = "exited"

\* C9 amended: replies never outnumber receives and reply i answers datagram i
\* with the fixed 12 bytes; at every receive attempt and after a receive error
\* all received datagrams are answered; a datagram is left unanswered only while
\* its send is pending or after that send failed and the process panicked; once
\* the process has exited or panicked nothing is received or sent any more.
C9_AnsweredUnlessSendFails ==
    /\ [](/\ Len(sent) <= Len(stdout)
          /\ Len(stdout) <= Len(sent) + 1
          /\ \A i \in 1..Len(sent) : Answers(i)
          /\ pc \in {"recv", "done"} => Len(sent) = Len(stdout)
          /\ Len(sent) < Len(stdout) => pc = "send"
          /\ pc = "done" => proc = "exited")
    /\ [][/\ proc # "running" => UNCHANGED <<pc, stdout, sent>>
          /\ sent' # sent => (pc = "send" /\ pc' = "recv" /\ Len(sent') = Len(sent) + 1)
          /\ stdout' # stdout => (pc = "recv" /\ pc' = "send"
                                  /\ Len(stdout') = Len(stdout) + 1)]_vars

\* two datagrams from different sources were received and answered, the second
\* one larger than the buffer
C9_Witness ==
    /\ pc = "recv" /\ Len(sent) = 2
    /\ stdout[1].source # stdout[2].source
    /\ stdout[2].size = 512
    /\ Answers(1) /\ Answers(2)

----------------------------------------------------------------------------
(* C10 *)

\* C10: for Z in 0..7 and mapped opcode and rcode, assembling bytes 2 and 3
\* never overflows a u8 sum and never shifts a set bit out of the byte, so
\* to_bytes neither panics nor wraps.
C10_NoOverflowNoLostBit ==
    (HeaderEncoded /\ header.z \in 0..7 /\ header.opcode \in MappedOpCodes) =>
        /\ hout.tag = "ok"
        /\ hout.ev = {}

====
